---------------------------- MODULE Spec2Model ----------------------------
(***************************************************************************)
(* ChiptuneJsPlayer (cutiekey/chiptune): the playback controller, the      *)
(* process nodes it creates (createLibopenmptNode) and their render        *)
(* callback (onaudioprocess), as a state machine.                          *)
(*                                                                         *)
(* JavaScript runs every operation to completion, so each operation is one *)
(* action.  The only code that runs inside another operation is an event   *)
(* handler invoked by fireEvent; a handler is modelled by what it does:    *)
(* "ok" returns, "throw" throws, "stop" calls player.stop(), "play" calls  *)
(* player.play() with bytes the decode engine accepts.                     *)
(*                                                                         *)
(* The operations are written as operators over a record w of the program  *)
(* state ("world"), so that a handler's effect composes into the callback  *)
(* that fired it; the actions at the end commit the resulting record.      *)
(***************************************************************************)
EXTENDS Integers, Sequences, FiniteSets, TLC

(* ------------------------------ bounds -------------------------------- *)

\* nodes created by play() over one behaviour
MaxSessions == 2
\* handlers registered with addHandler over one behaviour
MaxHandlers == 1
\* largest destination buffer (frames) the host hands to a callback
MaxFrames == 3
\* handlers already registered when a behaviour of SpecFire begins
MaxFireHandlers == 2
\* largest pattern index the decode engine reports
MaxPattern == 1
\* largest row index the decode engine reports
MaxRow == 1
\* part_000:61 / index.ts:62 `let maxFramesPerChunk = 4096`, scaled down so
\* that destinations below, at and above one chunk are all enumerated
maxFramesPerChunk == 2

(* ------------------------------ state --------------------------------- *)

VARIABLES
  nodes,               \* the process nodes created so far, in creation order
  currentPlayingNode,  \* index into nodes, or 0 when the property is absent
  handlers,            \* player.handlers: sequence of [eventName, handler]
  calls,               \* per node: the decode engine's / allocator's record
                       \* of what was asked of it (observation, not program state)
  last                 \* the operation that ran last and what it did

vars == <<nodes, currentPlayingNode, handlers, calls, last>>

EventNames == {"onEnded", "onError", "onRowChange", "onPatternChange"}
HandlerKinds == {"ok", "throw", "stop", "play"}

Min(a, b) == IF a < b THEN a ELSE b

\* counters of engine calls saturate, to keep the observation finite
Bump(n) == Min(n + 1, 2)

NoPayload == [type |-> "none", index |-> 0]
RowPayload(row) == [type |-> "index", index |-> row]
ErrorPayload == [type |-> "openmpt", index |-> 0]

(* --------------------------- decode engine ---------------------------- *)

\* addresses returned by libopenmpt._malloc and handles returned by
\* _openmpt_module_create_from_memory for the s-th node: non-zero and distinct
LeftAddr(s) == 2 * s - 1
RightAddr(s) == 2 * s
ModuleHandle(s) == s

\* _openmpt_module_read_float_stereo: frames produced for a request of
\* `frames`; the C API answers 0 for a null module
EngineRead(handle, frames) == IF handle = 0 THEN {0} ELSE 0 .. frames

\* HEAPF32 at the scratch buffers after a read: sample i of each channel
HeapLeft(ptr, i) == 100 + 10 * ptr + i
HeapRight(ptr, i) == 200 + 10 * ptr + i

\* HEAPF32.subarray(ptr / 4, ptr / 4 + actualFramesPerChunk)
RawAudioLeft(ptr, a) == [i \in 0 .. a - 1 |-> HeapLeft(ptr, i)]
RawAudioRight(ptr, a) == [i \in 0 .. a - 1 |-> HeapRight(ptr, i)]

(* ------------------------------ world --------------------------------- *)

NoObs ==
  [ events   |-> <<>>,   \* fireEvent calls: [node, name, payload, invoked,
                         \* seen: the dispatching node as the handlers find it]
    reads    |-> <<>>,   \* read_float_stereo calls
    engine   |-> <<>>,   \* other decode-engine calls: [fn, handle]
    outL     |-> <<>>,   \* destination channel 0: index -> value written
    outR     |-> <<>>,   \* destination channel 1
    threw    |-> FALSE,  \* an exception is propagating
    overflow |-> FALSE ] \* outside MaxSessions, or not an answer of the engine

World ==
  [ nodes |-> nodes, cur |-> currentPlayingNode, handlers |-> handlers,
    calls |-> calls, obs |-> NoObs ]

\* a node reference that refers to no node
NoNode ==
  [ modulePtr |-> 0, leftBufferPtr |-> 0, rightBufferPtr |-> 0,
    paused |-> FALSE, patternIndex |-> -1, connected |-> FALSE ]

NewCalls(h) ==
  [ created |-> h,         \* what create_from_memory answered for this node
    destroy |-> 0, freeL |-> 0, freeR |-> 0,
    zeroRead |-> FALSE,    \* a read of this node returned 0 frames
    ended |-> 0, error |-> 0,   \* onEnded / onError dispatched by this node
    prevPattern |-> -1 ]   \* pattern queried by the node's previous callback

EngineCall(w, fn, handle) ==
  [w EXCEPT !.obs.engine = Append(@, [fn |-> fn, handle |-> handle])]

(* ----------------------- processNode operations ----------------------- *)

\* cleanup with the test of modulePtr left out
CleanupModuleUnguarded(w, s) ==
  [w EXCEPT !.calls[s].destroy = Bump(@), !.nodes[s].modulePtr = 0]

CleanupModule(w, s) ==
  IF w.nodes[s].modulePtr # 0
    THEN [w EXCEPT !.calls[s].destroy = Bump(@), !.nodes[s].modulePtr = 0]
    ELSE w

CleanupLeft(w, s) ==
  IF w.nodes[s].leftBufferPtr # 0
    THEN [w EXCEPT !.calls[s].freeL = Bump(@), !.nodes[s].leftBufferPtr = 0]
    ELSE w

CleanupRight(w, s) ==
  IF w.nodes[s].rightBufferPtr # 0
    THEN [w EXCEPT !.calls[s].freeR = Bump(@), !.nodes[s].rightBufferPtr = 0]
    ELSE w

Cleanup(w, s) == CleanupRight(CleanupLeft(CleanupModule(w, s), s), s)

Disconnect(w, s) == [w EXCEPT !.nodes[s].connected = FALSE]

NodeStopOp(w, s) == Cleanup(Disconnect(w, s), s)

PauseOp(w, s) == [w EXCEPT !.nodes[s].paused = TRUE]

UnpauseOp(w, s) == [w EXCEPT !.nodes[s].paused = FALSE]

\* togglePause that sets the flag instead of inverting it
TogglePauseOpSetting(w, s) == [w EXCEPT !.nodes[s].paused = TRUE]

TogglePauseOp(w, s) == [w EXCEPT !.nodes[s].paused = ~@]

(* ------------------------ controller operations ----------------------- *)

\* stop() with the `delete this.currentPlayingNode` left out
PlayerStopKeepingNode(w) ==
  IF w.cur # 0 THEN Cleanup(Disconnect(w, w.cur), w.cur) ELSE w

PlayerStop(w) ==
  IF w.cur # 0
    THEN [Cleanup(Disconnect(w, w.cur), w.cur) EXCEPT !.cur = 0]
    ELSE w

\* createLibopenmptNode: the node is created and returned whatever
\* _openmpt_module_create_from_memory answers (parsed: a handle, else 0)
CreateLibopenmptNode(w, parsed) ==
  LET s == Len(w.nodes) + 1
      h == IF parsed THEN ModuleHandle(s) ELSE 0
      w1 == [w EXCEPT
               !.nodes = Append(@,
                 [ modulePtr |-> h,
                   leftBufferPtr |-> LeftAddr(s),
                   rightBufferPtr |-> RightAddr(s),
                   paused |-> FALSE,
                   patternIndex |-> -1,
                   connected |-> FALSE ]),
               !.calls = Append(@, NewCalls(h))]
  IN  EngineCall(EngineCall(w1, "create_from_memory", h), "get_num_channels", h)

\* play() with the stop() of the previous session left out
PlayerPlayWithoutStop(w, parsed) ==
  IF Len(w.nodes) >= MaxSessions
    THEN [w EXCEPT !.obs.overflow = TRUE]
    ELSE
      LET w1 == CreateLibopenmptNode(w, parsed)
          s  == Len(w1.nodes)
      IN  [EngineCall(w1, "set_repeat_count", w1.nodes[s].modulePtr)
             EXCEPT !.cur = s, !.nodes[s].connected = TRUE]

\* `if (!processNode) return` in play(): the node object is never falsy
ProcessNodeMissing(w, s) == FALSE

PlayerPlay(w, parsed) ==
  IF Len(w.nodes) >= MaxSessions
    THEN [w EXCEPT !.obs.overflow = TRUE]
    ELSE
      LET w1 == CreateLibopenmptNode(PlayerStop(w), parsed)
          s  == Len(w1.nodes)
      IN  IF ProcessNodeMissing(w1, s)
            THEN w1
            ELSE [EngineCall(w1, "set_repeat_count", w1.nodes[s].modulePtr)
                    EXCEPT !.cur = s, !.nodes[s].connected = TRUE]

PlayerTogglePause(w) == IF w.cur # 0 THEN TogglePauseOp(w, w.cur) ELSE w

(* ----------------------------- fireEvent ------------------------------ *)

\* handler.handler(response): what the registered function does
InvokeHandler(w, kind) ==
  CASE kind = "ok"    -> w
    [] kind = "throw" -> [w EXCEPT !.obs.threw = TRUE]
    [] kind = "stop"  -> PlayerStop(w)
    [] kind = "play"  -> PlayerPlay(w, TRUE)

\* handlers.forEach from index i on; e is the index of this dispatch in
\* obs.events.  A throwing handler ends the forEach.
RECURSIVE FireFrom(_, _, _, _)
FireFrom(w, name, e, i) ==
  IF i > Len(w.handlers) \/ w.obs.threw
    THEN w
    ELSE IF w.handlers[i].eventName = name
      THEN FireFrom(
             InvokeHandler([w EXCEPT !.obs.events[e].invoked = Append(@, i)],
                           w.handlers[i].handler),
             name, e, i + 1)
      ELSE FireFrom(w, name, e, i + 1)

FireEvent(w, s, name, payload) ==
  LET w1 == [w EXCEPT !.obs.events = Append(@,
               [ node |-> s, name |-> name, payload |-> payload,
                 invoked |-> <<>>,
                 seen |-> IF s \in 1 .. Len(w.nodes) THEN w.nodes[s]
                          ELSE NoNode ])]
  IN  FireFrom(w1, name, Len(w1.obs.events), 1)

(* --------------------------- onaudioprocess --------------------------- *)

\* the two `for` loops of one chunk: indices fr .. fr+a-1 receive the scratch
\* samples 0 .. a-1, indices fr+a .. fr+fpc-1 receive 0
\* one chunk with the zero fill of the shortfall left out
WriteChunkWithoutFill(out, fr, a, fpc, raw) ==
  [j \in DOMAIN out \cup (fr .. fr + a - 1) |->
     IF j \in fr .. fr + a - 1 THEN raw[j - fr] ELSE out[j]]

WriteChunk(out, fr, a, fpc, raw) ==
  [j \in DOMAIN out \cup (fr .. fr + fpc - 1) |->
     IF j \in fr .. fr + a - 1 THEN raw[j - fr]
     ELSE IF j \in fr + a .. fr + fpc - 1 THEN 0
     ELSE out[j]]

\* `for (i = 0; i < framesToRender; ++i) output[i] = 0`
Silence(n) == [j \in 0 .. n - 1 |-> 0]

ChunksOf(n) == (n + maxFramesPerChunk - 1) \div maxFramesPerChunk
MaxChunks == ChunksOf(MaxFrames)

\* the loop's advance of framesRendered / framesToRender after one chunk
Advance(framesPerChunk, actualFramesPerChunk) == framesPerChunk

\* `while (framesToRender > 0)`; actual[k] is what the engine answers to the
\* k-th read.  Returns the world and the locals `ended` and `error`.
RECURSIVE ChunkLoop(_, _, _, _, _, _, _, _)
ChunkLoop(w, s, framesToRender, framesRendered, ended, error, actual, k) ==
  IF framesToRender <= 0
    THEN [w |-> w, ended |-> ended, error |-> error]
    ELSE
      LET n == w.nodes[s]
          framesPerChunk == Min(framesToRender, maxFramesPerChunk)
          feasible == actual[k] \in EngineRead(n.modulePtr, framesPerChunk)
          a == IF feasible THEN actual[k] ELSE 0
          w1 == [w EXCEPT
                   !.obs.overflow = @ \/ ~feasible,
                   !.obs.reads = Append(@,
                     [ node |-> s, handle |-> n.modulePtr,
                       frames |-> framesPerChunk,
                       left |-> n.leftBufferPtr, right |-> n.rightBufferPtr,
                       at |-> framesRendered, actual |-> a,
                       zeroBefore |-> w.calls[s].zeroRead ]),
                   !.calls[s].zeroRead = @ \/ (a = 0),
                   !.obs.outL = WriteChunk(@, framesRendered, a, framesPerChunk,
                                           RawAudioLeft(n.leftBufferPtr, a)),
                   !.obs.outR = WriteChunk(@, framesRendered, a, framesPerChunk,
                                           RawAudioRight(n.rightBufferPtr, a))]
          step == Advance(framesPerChunk, a)
      IN  ChunkLoop(w1, s, framesToRender - step, framesRendered + step,
                    ended \/ (a = 0),
                    IF a = 0 THEN n.modulePtr = 0 ELSE error,
                    actual, k + 1)

\* the dead-handle path with cleanup() left out
DeadPathWithoutCleanup(w, s, N) ==
  Disconnect([w EXCEPT !.obs.outL = Silence(N), !.obs.outR = Silence(N)], s)

\* `if (this.modulePtr === 0)`: silence, disconnect, cleanup, return
DeadPath(w, s, N) ==
  Cleanup(Disconnect([w EXCEPT !.obs.outL = Silence(N), !.obs.outR = Silence(N)],
                     s), s)

\* `if (this.paused)`: silence, return
PausedPath(w, s, N) ==
  [w EXCEPT !.obs.outL = Silence(N), !.obs.outR = Silence(N)]

\* processNode.patternIndex after the pattern comparison: it is assigned
\* once, at creation, and never again
StorePattern(n, currentPattern) == n.patternIndex

\* the end of stream with disconnect() and cleanup() left out
EndOfStreamWithoutTeardown(w, s, error) ==
  IF error
    THEN FireEvent([w EXCEPT !.calls[s].error = Bump(@)],
                   s, "onError", ErrorPayload)
    ELSE FireEvent([w EXCEPT !.calls[s].ended = Bump(@)],
                   s, "onEnded", NoPayload)

\* the end of stream with the event fired before disconnect() and cleanup()
EndOfStreamFiringFirst(w, s, error) ==
  LET w1 == IF error
              THEN FireEvent([w EXCEPT !.calls[s].error = Bump(@)],
                             s, "onError", ErrorPayload)
              ELSE FireEvent([w EXCEPT !.calls[s].ended = Bump(@)],
                             s, "onEnded", NoPayload)
  IN  Cleanup(Disconnect(w1, s), s)

\* `if (ended)`: disconnect, cleanup, then onError or onEnded
EndOfStream(w, s, error) ==
  LET w1 == Cleanup(Disconnect(w, s), s)
  IN  IF error
        THEN FireEvent([w1 EXCEPT !.calls[s].error = Bump(@)],
                       s, "onError", ErrorPayload)
        ELSE FireEvent([w1 EXCEPT !.calls[s].ended = Bump(@)],
                       s, "onEnded", NoPayload)

\* from the pattern/row queries to the end of the callback
ActivePath(w, s, N, currentPattern, currentRow, actual) ==
  LET h  == w.nodes[s].modulePtr
      w1 == [EngineCall(EngineCall(w, "get_current_pattern", h),
                        "get_current_row", h)
               EXCEPT !.calls[s].prevPattern = currentPattern]
      w2 == IF currentPattern # w1.nodes[s].patternIndex
              THEN FireEvent(w1, s, "onPatternChange", NoPayload)
              ELSE w1
      w3 == [w2 EXCEPT !.nodes[s].patternIndex =
                          StorePattern(w2.nodes[s], currentPattern)]
      w4 == FireEvent(w3, s, "onRowChange", RowPayload(currentRow))
      r  == ChunkLoop(w4, s, N, 0, FALSE, FALSE, actual, 1)
  IN  IF w2.obs.threw THEN w2
      ELSE IF w4.obs.threw THEN w4
      ELSE IF r.ended THEN EndOfStream(r.w, s, r.error)
      ELSE r.w

\* the callback with the test of `paused` left out
OnAudioProcessIgnoringPause(w, s, N, currentPattern, currentRow, actual) ==
  IF w.nodes[s].modulePtr = 0 THEN DeadPath(w, s, N)
  ELSE ActivePath(w, s, N, currentPattern, currentRow, actual)

OnAudioProcess(w, s, N, currentPattern, currentRow, actual) ==
  IF w.nodes[s].modulePtr = 0 THEN DeadPath(w, s, N)
  ELSE IF w.nodes[s].paused THEN PausedPath(w, s, N)
  ELSE ActivePath(w, s, N, currentPattern, currentRow, actual)

(* ------------------------------ queries ------------------------------- *)

\* what a getter of the decode engine answers; 0 for a null module
EngineValue(handle) == IF handle = 0 THEN {0} ELSE {0, 1}

\* `this.currentPlayingNode!.modulePtr` passed to the engine without a test:
\* duration, position, metadata (part_000); 
UnguardedOps == {"duration", "position", "metadata"}

\* the same shape in index.ts
IndexUnguardedOps ==
  { "getCurrentOrder", "getCurrentPattern", "getCurrentRow", "getCurrentTime",
    "getTotalOrder", "getTotalPatterns", "moduleCtlSet" }

\* `if (this.currentPlayingNode && this.currentPlayingNode.modulePtr)` else 0 / ''
GuardedOps ==
  { "getCtls", "getCurrentSpeed", "getCurrentTempo", "getNumPatterns",
    "getPattern", "getPatternNumRows", "getPatternRowChannel", "getRow",
    "version" }

QueryOps == UnguardedOps \cup IndexUnguardedOps \cup GuardedOps \cup {"seek"}

\* the outcome of a query: a TypeError (fault), or a value, with the handle
\* given to the engine (-1: the engine was not called)
Outcome(fault, value, handle) ==
  [fault |-> fault, value |-> value, handle |-> handle]

NoOutcome == Outcome(FALSE, 0, -1)

UnguardedQuery(w, v) ==
  IF w.cur = 0
    THEN Outcome(TRUE, 0, -1)
    ELSE Outcome(FALSE, v, w.nodes[w.cur].modulePtr)

GuardedQuery(w, v) ==
  IF w.cur # 0 /\ w.nodes[w.cur].modulePtr # 0
    THEN Outcome(FALSE, v, w.nodes[w.cur].modulePtr)
    ELSE Outcome(FALSE, 0, -1)

Seek(w) ==
  IF w.cur # 0
    THEN Outcome(FALSE, 0, w.nodes[w.cur].modulePtr)
    ELSE Outcome(FALSE, 0, -1)

QueryOutcome(w, q, v) ==
  IF q \in GuardedOps THEN GuardedQuery(w, v)
  ELSE IF q = "seek" THEN Seek(w)
  ELSE UnguardedQuery(w, v)

\* the handle a query would hand to the engine in world w
QueryHandle(w, q) == QueryOutcome(w, q, 0).handle

(* ------------------------------ actions ------------------------------- *)

\* the node an operation is about, as it was when the operation began
NodeAt(s) == IF s \in 1 .. Len(nodes) THEN nodes[s] ELSE NoNode

CallsAt(s) == IF s \in 1 .. Len(nodes) THEN calls[s] ELSE NewCalls(0)

Pre(s) ==
  [ cur |-> currentPlayingNode,
    curNode |-> NodeAt(currentPlayingNode),
    node |-> NodeAt(s),
    calls |-> CallsAt(s) ]

Op(op, s, N, currentPattern, currentRow, q, result, w) ==
  [ op |-> op, node |-> s, frames |-> N, pattern |-> currentPattern,
    row |-> currentRow, query |-> q, result |-> result,
    pre |-> Pre(s), obs |-> w.obs ]

Simple(op, s, w) == Op(op, s, 0, -1, -1, "", NoOutcome, w)

\* no operation is running and none is being observed
Idle ==
  [ op |-> "idle", node |-> 0, frames |-> 0, pattern |-> -1, row |-> -1,
    query |-> "", result |-> NoOutcome,
    pre |-> [cur |-> 0, curNode |-> NoNode, node |-> NoNode, calls |-> NewCalls(0)],
    obs |-> NoObs ]

\* the operation's resulting world becomes the state; an operation that would
\* leave the model's bounds is not taken
Commit(w, op) ==
  /\ last = Idle
  /\ ~w.obs.overflow
  /\ nodes' = w.nodes
  /\ currentPlayingNode' = w.cur
  /\ calls' = w.calls
  /\ last' = op
  /\ UNCHANGED handlers

Init ==
  /\ nodes = <<>>
  /\ currentPlayingNode = 0
  /\ handlers = <<>>
  /\ calls = <<>>
  /\ last = Idle

\* the operation has returned to the event loop: what it did is no longer
\* observed, the program state stays
Return ==
  /\ last # Idle
  /\ last' = Idle
  /\ UNCHANGED <<nodes, currentPlayingNode, handlers, calls>>

AddHandler(eventName, handler) ==
  /\ last = Idle
  /\ Len(handlers) < MaxHandlers
  /\ handlers' = Append(handlers, [eventName |-> eventName, handler |-> handler])
  /\ last' = Simple("addHandler", 0, World)
  /\ UNCHANGED <<nodes, currentPlayingNode, calls>>

Play(parsed) ==
  LET w == PlayerPlay(World, parsed) IN Commit(w, Simple("play", Len(w.nodes), w))

Stop ==
  LET w == PlayerStop(World) IN Commit(w, Simple("stop", currentPlayingNode, w))

TogglePause ==
  LET w == PlayerTogglePause(World)
  IN  Commit(w, Simple("togglePause", currentPlayingNode, w))

\* the application reaches a node through player.currentPlayingNode
NodeCleanup(s) ==
  LET w == Cleanup(World, s) IN Commit(w, Simple("node.cleanup", s, w))

NodeStop(s) ==
  LET w == NodeStopOp(World, s) IN Commit(w, Simple("node.stop", s, w))

NodePause(s) ==
  LET w == PauseOp(World, s) IN Commit(w, Simple("node.pause", s, w))

NodeUnpause(s) ==
  LET w == UnpauseOp(World, s) IN Commit(w, Simple("node.unpause", s, w))

NodeTogglePause(s) ==
  LET w == TogglePauseOp(World, s)
  IN  Commit(w, Simple("node.togglePause", s, w))

\* the host invokes onaudioprocess of a node connected to the output graph
\* with a destination of N frames; currentPattern, currentRow and actual are
\* the decode engine's answers during the callback
RenderWith(s, N, currentPattern, currentRow, actual) ==
  LET w == OnAudioProcess(World, s, N, currentPattern, currentRow, actual)
  IN  Commit(w, Op("render", s, N, currentPattern, currentRow, "", NoOutcome, w))

\* what the engine may answer to the reads of a destination of N frames: at
\* most the frames asked for by each chunk, nothing for a chunk that is not asked
Answers(N) ==
  { actual \in [1 .. MaxChunks -> 0 .. maxFramesPerChunk] :
      \A k \in 1 .. MaxChunks :
        \/ actual[k] = 0
        \/ actual[k] <= Min(maxFramesPerChunk, N - (k - 1) * maxFramesPerChunk) }

Render(s) ==
  /\ last = Idle
  /\ nodes[s].connected
  /\ \E N \in 0 .. MaxFrames :
       IF nodes[s].modulePtr = 0 \/ nodes[s].paused
         THEN RenderWith(s, N, -1, -1, [k \in 1 .. MaxChunks |-> 0])
         ELSE \E currentPattern \in 0 .. MaxPattern, currentRow \in 0 .. MaxRow,
                 actual \in Answers(N) :
                RenderWith(s, N, currentPattern, currentRow, actual)

\* player.fireEvent called by the application itself
Fire(eventName) ==
  LET w == FireEvent(World, 0, eventName, NoPayload)
  IN  Commit(w, Simple("fireEvent", 0, w))

Query(q) ==
  \E v \in EngineValue(QueryHandle(World, q)) :
    LET r == QueryOutcome(World, q, v)
        w == IF r.handle # -1 THEN EngineCall(World, q, r.handle) ELSE World
    IN  Commit(w, Op("query", currentPlayingNode, 0, -1, -1, q, r, w))

Created == 1 .. Len(nodes)

Current == IF currentPlayingNode = 0 THEN {} ELSE {currentPlayingNode}

Next ==
  \/ \E e \in EventNames, h \in HandlerKinds : AddHandler(e, h)
  \/ \E parsed \in BOOLEAN : Play(parsed)
  \/ Stop
  \/ TogglePause
  \/ \E s \in Current : NodeCleanup(s)
  \/ \E s \in Current : NodeStop(s)
  \/ \E s \in Current : NodePause(s)
  \/ \E s \in Current : NodeUnpause(s)
  \/ \E s \in Current : NodeTogglePause(s)
  \/ \E s \in Created : Render(s)
  \/ \E e \in EventNames : Fire(e)
  \/ \E q \in QueryOps : Query(q)
  \/ Return

Spec == Init /\ [][Next]_vars

(* -------- the player with several handlers registered beforehand ------- *)

HandlerEntries == [eventName : EventNames, handler : HandlerKinds]

HandlerLists ==
  UNION { [1 .. n -> HandlerEntries] : n \in 0 .. MaxFireHandlers }

\* the state after the constructor and any addHandler calls
InitFire ==
  /\ nodes = <<>>
  /\ currentPlayingNode = 0
  /\ handlers \in HandlerLists
  /\ calls = <<>>
  /\ last = Idle

NextFire ==
  \/ \E parsed \in BOOLEAN : Play(parsed)
  \/ \E e \in EventNames : Fire(e)
  \/ Return

SpecFire == InitFire /\ [][NextFire]_vars

(* ------------------------------ claims -------------------------------- *)

IsRender == last.op = "render"

\* the callback that ran last found a live handle and paused = false
ActiveRender ==
  IsRender /\ last.pre.node.modulePtr # 0 /\ ~last.pre.node.paused

\* the callback that ran last found paused = true
PausedRender == IsRender /\ last.pre.node.paused

\* the dispatches of `name` made by node s in the operation that ran last
Dispatched(s, name) ==
  { e \in 1 .. Len(last.obs.events) :
      last.obs.events[e].node = s /\ last.obs.events[e].name = name }

ZeroReads == { k \in 1 .. Len(last.obs.reads) : last.obs.reads[k].actual = 0 }

AllZero(out, N) == DOMAIN out = 0 .. N - 1 /\ \A j \in DOMAIN out : out[j] = 0

\* C1: one render callback on a session with a live handle and paused = false
\* writes every index 0..N-1 of both output channels and no index outside
\* 0..N-1, whatever N and whatever frame counts the engine returns.
C1_AllFramesWritten ==
  ActiveRender =>
    /\ DOMAIN last.obs.outL = 0 .. last.frames - 1
    /\ DOMAIN last.obs.outR = 0 .. last.frames - 1

\* the chunk loop alone: the same, for a callback out of which no handler's
\* exception propagated
C1_AllFramesWrittenUnlessThrown ==
  ActiveRender /\ ~last.obs.threw =>
    /\ DOMAIN last.obs.outL = 0 .. last.frames - 1
    /\ DOMAIN last.obs.outR = 0 .. last.frames - 1

\* C2: a zero-frame read yields exactly one terminal event of its session over
\* the session's lifetime: onEnded and no onError when the handle was live at
\* the read, onError {type: 'openmpt'} and no onEnded when it was cleared; no
\* other callback of the session dispatches onEnded or onError.
C2_OneTerminalEvent ==
  /\ \A s \in 1 .. Len(nodes) :
       /\ calls[s].ended + calls[s].error <= 1
       /\ calls[s].zeroRead <=> calls[s].ended + calls[s].error = 1
  /\ IsRender =>
       LET s == last.node
           ended == Dispatched(s, "onEnded")
           error == Dispatched(s, "onError")
       IN  IF ZeroReads = {}
             THEN ended = {} /\ error = {}
             ELSE \A k \in ZeroReads :
                    IF last.obs.reads[k].handle # 0
                      THEN Cardinality(ended) = 1 /\ error = {}
                      ELSE /\ Cardinality(error) = 1 /\ ended = {}
                           /\ \A e \in error :
                                last.obs.events[e].payload = ErrorPayload

\* C2's case: one session has ended on a zero-frame read with a live handle,
\* and the callback that ran last read zero frames with a cleared handle
C2_Witness ==
  /\ IsRender
  /\ \E k \in ZeroReads : last.obs.reads[k].handle = 0
  /\ calls[last.node].error = 1
  /\ \E s \in 1 .. Len(nodes) : calls[s].ended = 1

\* C3: a session's module handle is destroyed at most once and each scratch
\* buffer freed at most once; a second cleanup() right after a first issues no
\* destroy and no free call; cleanup releases each of the three resources that
\* is still held, whatever the state of the other two.
C3_ReleasedOnce ==
  \A s \in 1 .. Len(nodes) :
    LET w1 == Cleanup(World, s)
        w2 == Cleanup(w1, s)
        One(held) == IF held THEN 1 ELSE 0
    IN  /\ calls[s].destroy <= 1 /\ calls[s].freeL <= 1 /\ calls[s].freeR <= 1
        /\ w2.calls = w1.calls /\ w2.nodes = w1.nodes
        /\ w1.nodes[s].modulePtr = 0
        /\ w1.nodes[s].leftBufferPtr = 0
        /\ w1.nodes[s].rightBufferPtr = 0
        /\ w1.calls[s].destroy = calls[s].destroy + One(nodes[s].modulePtr # 0)
        /\ w1.calls[s].freeL = calls[s].freeL + One(nodes[s].leftBufferPtr # 0)
        /\ w1.calls[s].freeR = calls[s].freeR + One(nodes[s].rightBufferPtr # 0)

\* C3's case: cleanup() has run on a session whose handle was already absent
\* and whose buffers were still allocated, and has freed just the buffers
C3_Witness ==
  /\ last.op = "node.cleanup"
  /\ last.pre.node.modulePtr = 0
  /\ last.pre.node.leftBufferPtr # 0 /\ last.pre.node.rightBufferPtr # 0
  /\ nodes[last.node].leftBufferPtr = 0 /\ nodes[last.node].rightBufferPtr = 0
  /\ calls[last.node].destroy = 0
  /\ calls[last.node].freeL = 1 /\ calls[last.node].freeR = 1

\* C4: a callback of a live, unpaused session dispatches onPatternChange if
\* and only if the pattern it queried differs from the pattern queried by the
\* session's preceding callback (-1 before the first).
C4_PatternChangeIffChanged ==
  ActiveRender =>
    (Dispatched(last.node, "onPatternChange") # {}
       <=> last.pattern # last.pre.calls.prevPattern)

\* C5: when create answers a null handle, play() leaves no active session and
\* connects no node, and a following duration() returns 0.
C5_RejectedLeavesNoSession ==
  (last.op = "play" /\ calls[last.node].created = 0) =>
    /\ currentPlayingNode = 0
    /\ \A s \in 1 .. Len(nodes) : ~nodes[s].connected
    /\ \A v \in EngineValue(QueryHandle(World, "duration")) :
         LET r == QueryOutcome(World, "duration", v)
         IN  ~r.fault /\ r.value = 0

\* C6: with no active session every query returns its default and neither
\* faults nor calls the decode engine.
C6_DefaultsWhenInactive ==
  (last.op = "query" /\ last.pre.cur = 0) => last.result = NoOutcome

\* C7 as stated: whenever paused is set, a callback writes zero to all N
\* frames, calls the engine not at all, dispatches nothing, leaves the node as
\* it was and neither disconnects nor cleans up.
C7_PausedIsSilentNoOp ==
  PausedRender =>
    /\ AllZero(last.obs.outL, last.frames)
    /\ AllZero(last.obs.outR, last.frames)
    /\ last.obs.reads = <<>> /\ last.obs.engine = <<>>
    /\ last.obs.events = <<>>
    /\ nodes[last.node] = last.pre.node
    /\ calls[last.node] = last.pre.calls
    /\ currentPlayingNode = last.pre.cur

\* C7, amended: the same, for a session whose paused flag is set and whose
\* module handle is live.
C7_PausedLiveIsSilentNoOp ==
  (PausedRender /\ last.pre.node.modulePtr # 0) =>
    /\ AllZero(last.obs.outL, last.frames)
    /\ AllZero(last.obs.outR, last.frames)
    /\ last.obs.reads = <<>> /\ last.obs.engine = <<>>
    /\ last.obs.events = <<>>
    /\ nodes[last.node] = last.pre.node
    /\ calls[last.node] = last.pre.calls
    /\ currentPlayingNode = last.pre.cur

\* C7's case: a callback has run on a paused session with a live handle and a
\* destination of the largest size
C7_Witness ==
  /\ PausedRender /\ last.pre.node.modulePtr # 0
  /\ last.frames = MaxFrames
  /\ nodes[last.node].connected /\ nodes[last.node].paused

\* C8: once a session has ended (a read returned 0 frames, or its handle is
\* gone), no further read is issued for it, neither later in the same callback
\* nor in a later one.
C8_NoReadAfterEnd ==
  IsRender =>
    \A k \in 1 .. Len(last.obs.reads) :
      ~last.obs.reads[k].zeroBefore /\ last.obs.reads[k].handle # 0

Connected == { s \in 1 .. Len(nodes) : nodes[s].connected }

Released(n) ==
  n.modulePtr = 0 /\ n.leftBufferPtr = 0 /\ n.rightBufferPtr = 0

\* C9: at most one session is connected to the output graph; play() has the
\* previously active session disconnected and cleaned up before the new one
\* is connected.
C9_AtMostOneConnected ==
  /\ Cardinality(Connected) <= 1
  /\ Connected \subseteq {currentPlayingNode}
  /\ LET w1 == PlayerStop(World)
     IN  \A s \in 1 .. Len(nodes) :
           ~w1.nodes[s].connected /\ Released(w1.nodes[s])
  /\ last.op = "play" =>
       /\ Connected = {last.node}
       /\ \A s \in 1 .. Len(nodes) : s # last.node => Released(nodes[s])

\* C9's case: play() has replaced a session that was connected and live
C9_Witness ==
  /\ last.op = "play"
  /\ last.pre.cur # 0
  /\ last.pre.curNode.connected /\ last.pre.curNode.modulePtr # 0
  /\ Connected = {last.node}
  /\ last.node # last.pre.cur

\* C10: when the engine rejects the bytes given to play(), the failure is
\* surfaced as an onError event and the session is torn down: a rejected
\* session that has been torn down has dispatched onError.
C10_RejectionSurfaced ==
  \A s \in 1 .. Len(nodes) :
    (calls[s].created = 0 /\ ~nodes[s].connected) => calls[s].error >= 1

\* the handlers registered under `name`, by their index in player.handlers
Registered(name) ==
  { i \in 1 .. Len(handlers) : handlers[i].eventName = name }

Range(f) == { f[i] : i \in DOMAIN f }

IsFire == last.op = "fireEvent"

\* the dispatch made by a fireEvent call of the application
Fired == last.obs.events[1]

\* C11: fireEvent(name) invokes every handler registered under name even when
\* an earlier one throws, and no handler's exception reaches fireEvent's caller.
C11_EveryHandlerInvoked ==
  IsFire =>
    /\ Registered(Fired.name) \subseteq Range(Fired.invoked)
    /\ ~last.obs.threw

\* C12: every render callback, whatever the state of its session and whatever
\* the handlers and the engine do, returns without an exception leaving it and
\* with every index 0..N-1 of both output channels written.
C12_ReturnsNormallyAllWritten ==
  IsRender =>
    /\ ~last.obs.threw
    /\ DOMAIN last.obs.outL = 0 .. last.frames - 1
    /\ DOMAIN last.obs.outR = 0 .. last.frames - 1

RowChanges == Dispatched(last.node, "onRowChange")

\* the one onRowChange of the callback, its payload and its place among the
\* callback's other dispatches
OneRowChangeInOrder ==
  /\ Cardinality(RowChanges) = 1
  /\ \A e \in RowChanges :
       /\ last.obs.events[e].payload = RowPayload(last.row)
       /\ \A p \in Dispatched(last.node, "onPatternChange") : p < e
       /\ \A t \in Dispatched(last.node, "onEnded")
                     \cup Dispatched(last.node, "onError") : e < t

\* C13: a render callback of a session with a live handle and paused = false
\* dispatches exactly one onRowChange, carrying the row queried at the start
\* of the callback, after any onPatternChange and before any onEnded/onError
\* of the same callback.
C13_OneRowChangePerCallback == ActiveRender => OneRowChangeInOrder

\* the same, for a callback out of which no handler's exception propagated
C13_OneRowChangeUnlessThrown ==
  ActiveRender /\ ~last.obs.threw => OneRowChangeInOrder

Reads == last.obs.reads

Written(out, j, v) == j \in DOMAIN out /\ out[j] = v

\* C14: for every read of a render callback, requested with size r at write
\* offset o and answered with a frames (0 <= a <= r): indices o..o+a-1 of each
\* channel hold samples 0..a-1 of its scratch buffer, indices o+a..o+r-1 hold
\* zero, and the next read is at offset o+r; the requests stay inside 0..N-1
\* and the last one ends at N, so there are at most N of them.
C14_ChunkCopiedFilledAdvanced ==
  IsRender =>
    /\ Len(Reads) <= last.frames
    /\ Len(Reads) > 0 =>
         Reads[Len(Reads)].at + Reads[Len(Reads)].frames = last.frames
    /\ \A k \in 1 .. Len(Reads) :
         LET r == Reads[k]
         IN  /\ r.actual \in 0 .. r.frames
             /\ r.at = IF k = 1 THEN 0
                       ELSE Reads[k - 1].at + Reads[k - 1].frames
             /\ \A i \in 0 .. r.actual - 1 :
                  /\ Written(last.obs.outL, r.at + i, HeapLeft(r.left, i))
                  /\ Written(last.obs.outR, r.at + i, HeapRight(r.right, i))
             /\ \A i \in r.actual .. r.frames - 1 :
                  /\ Written(last.obs.outL, r.at + i, 0)
                  /\ Written(last.obs.outR, r.at + i, 0)

\* a callback of two chunks: a short read (1 of 2 frames), then a read of 0
C14_Witness ==
  /\ IsRender
  /\ Len(Reads) = 2
  /\ Reads[1].frames = 2 /\ Reads[1].actual = 1
  /\ Reads[2].at = 2 /\ Reads[2].actual = 0

\* ceil(N / M) requests, the k-th of size min(N - (k - 1) * M, M); a
\* non-empty destination that fits one chunk is one request of size N
ChunkRequests ==
  /\ Len(Reads) = ChunksOf(last.frames)
  /\ \A k \in 1 .. Len(Reads) :
       Reads[k].frames =
         Min(last.frames - (k - 1) * maxFramesPerChunk, maxFramesPerChunk)
  /\ last.frames \in 1 .. maxFramesPerChunk =>
       Len(Reads) = 1 /\ Reads[1].frames = last.frames

\* C15: a render callback of N frames on a session with a live handle and
\* paused = false issues exactly ceil(N / maxFramesPerChunk) reads, the k-th
\* of size min(N - (k - 1) * maxFramesPerChunk, maxFramesPerChunk); for N no
\* larger than maxFramesPerChunk that is one request of size N.
C15_ChunkRequestSizes == ActiveRender => ChunkRequests

\* the same, for a callback out of which no handler's exception propagated
C15_ChunkRequestSizesUnlessThrown ==
  ActiveRender /\ ~last.obs.threw => ChunkRequests

\* the callback that ran last found the module handle absent
DeadRender == IsRender /\ last.pre.node.modulePtr = 0

\* one more call than before if the pointer was set, else as many as before
FreedIfSet(ptr, before, after) ==
  after = IF ptr # 0 THEN Bump(before) ELSE before

\* C16: a render callback on a session whose module handle is 0 writes zero to
\* every index 0..N-1 of both channels, disconnects the session, frees each
\* scratch buffer still allocated (and no other), makes no call of the decode
\* engine, dispatches no event and returns normally.
C16_DeadHandleSilentTeardown ==
  DeadRender =>
    /\ AllZero(last.obs.outL, last.frames)
    /\ AllZero(last.obs.outR, last.frames)
    /\ ~nodes[last.node].connected
    /\ Released(nodes[last.node])
    /\ FreedIfSet(last.pre.node.leftBufferPtr, last.pre.calls.freeL,
                  calls[last.node].freeL)
    /\ FreedIfSet(last.pre.node.rightBufferPtr, last.pre.calls.freeR,
                  calls[last.node].freeR)
    /\ calls[last.node].destroy = last.pre.calls.destroy
    /\ last.obs.reads = <<>>
    /\ last.obs.engine = <<>>
    /\ last.obs.events = <<>>
    /\ ~last.obs.threw

\* the callback of a session whose bytes the engine rejected: both scratch
\* buffers were still allocated, and a handler is registered for onError
C16_Witness ==
  /\ DeadRender
  /\ last.frames = MaxFrames
  /\ last.pre.node.leftBufferPtr # 0 /\ last.pre.node.rightBufferPtr # 0
  /\ Registered("onError") # {}

IsStop == last.op = "stop"

\* C17: stop() of the controller with an active session disconnects it,
\* destroys its handle and frees both scratch buffers (each only if still
\* set) and clears currentPlayingNode, whether the session was paused, ended
\* or neither; with no active session it changes nothing and calls nothing;
\* a second stop() changes nothing more.
C17_StopReleasesAndIsIdempotent ==
  /\ PlayerStop(PlayerStop(World)) = PlayerStop(World)
  /\ currentPlayingNode = 0 => PlayerStop(World) = World
  /\ IsStop => currentPlayingNode = 0 /\ last.obs = NoObs
  /\ IsStop /\ last.pre.cur # 0 =>
       LET s == last.pre.cur
       IN  /\ ~nodes[s].connected
           /\ Released(nodes[s])
           /\ nodes[s].paused = last.pre.node.paused
           /\ FreedIfSet(last.pre.node.modulePtr, last.pre.calls.destroy,
                         calls[s].destroy)
           /\ FreedIfSet(last.pre.node.leftBufferPtr, last.pre.calls.freeL,
                         calls[s].freeL)
           /\ FreedIfSet(last.pre.node.rightBufferPtr, last.pre.calls.freeR,
                         calls[s].freeR)

\* stop() of a paused session whose handle and buffers were live
C17_Witness ==
  /\ IsStop /\ last.pre.cur # 0
  /\ last.pre.node.paused
  /\ last.pre.node.modulePtr # 0
  /\ last.pre.node.leftBufferPtr # 0 /\ last.pre.node.rightBufferPtr # 0
  /\ ~Released(last.pre.node) /\ Released(nodes[last.pre.cur])

\* the handlers registered under the fired name, each once, in the order of
\* their registration, and the payload the caller passed
InvokedAsRegistered ==
  /\ Len(last.obs.events) = 1
  /\ Fired.payload = NoPayload
  /\ Range(Fired.invoked) = Registered(Fired.name)
  /\ Len(Fired.invoked) = Cardinality(Registered(Fired.name))
  /\ \A i, j \in 1 .. Len(Fired.invoked) :
       i < j => Fired.invoked[i] < Fired.invoked[j]

\* C18: fireEvent(name, payload) invokes exactly the handlers registered
\* under name, once per registration, in registration order, and no handler
\* registered under another name.
C18_ExactlyRegisteredInOrder == IsFire => InvokedAsRegistered

\* the same, for a dispatch out of which no handler's exception propagated
C18_ExactlyRegisteredUnlessThrown ==
  IsFire /\ ~last.obs.threw => InvokedAsRegistered

PauseOps == {"togglePause", "node.togglePause", "node.pause", "node.unpause"}

\* w differs from the current state in nothing but the paused flag of node s
OnlyPausedChanged(w, s) ==
  w = [World EXCEPT !.nodes[s].paused = w.nodes[s].paused]

\* C19: calling togglePause twice restores `paused`; pause and unpause are
\* idempotent; none of the three changes the module handle, the scratch
\* buffers or the connection of the session (nor anything but `paused`); the
\* controller's togglePause toggles the active session and changes nothing
\* when there is none.
C19_PauseFlagOnly ==
  /\ \A s \in 1 .. Len(nodes) :
       /\ TogglePauseOp(World, s).nodes[s].paused = ~nodes[s].paused
       /\ TogglePauseOp(TogglePauseOp(World, s), s) = World
       /\ PauseOp(World, s).nodes[s].paused
       /\ PauseOp(PauseOp(World, s), s) = PauseOp(World, s)
       /\ ~UnpauseOp(World, s).nodes[s].paused
       /\ UnpauseOp(UnpauseOp(World, s), s) = UnpauseOp(World, s)
       /\ OnlyPausedChanged(TogglePauseOp(World, s), s)
       /\ OnlyPausedChanged(PauseOp(World, s), s)
       /\ OnlyPausedChanged(UnpauseOp(World, s), s)
  /\ currentPlayingNode = 0 => PlayerTogglePause(World) = World
  /\ currentPlayingNode # 0 =>
       PlayerTogglePause(PlayerTogglePause(World)) = World
  /\ last.op \in PauseOps /\ last.node # 0 =>
       /\ nodes[last.node] =
            [last.pre.node EXCEPT !.paused = nodes[last.node].paused]
       /\ calls[last.node] = last.pre.calls
       /\ currentPlayingNode = last.pre.cur
       /\ last.obs = NoObs
  /\ last.op \in {"togglePause", "node.togglePause"} /\ last.node # 0 =>
       nodes[last.node].paused = ~last.pre.node.paused

\* the controller's togglePause on a paused, connected session resumed it
C19_Witness ==
  /\ last.op = "togglePause" /\ last.node # 0
  /\ last.pre.node.paused /\ last.pre.node.connected
  /\ ~nodes[last.node].paused /\ nodes[last.node].connected

\* C20: whatever the handlers invoked inside a render callback do (stop(),
\* play()), every read of the callback is issued with a module handle that
\* has not been destroyed and scratch buffers that have not been freed: the
\* session is not torn down while reads of the callback are still to come.
C20_NoReadOnTornDownSession ==
  IsRender =>
    \A k \in 1 .. Len(Reads) :
      /\ Reads[k].handle # 0 /\ Reads[k].handle = last.pre.node.modulePtr
      /\ Reads[k].left # 0 /\ Reads[k].left = last.pre.node.leftBufferPtr
      /\ Reads[k].right # 0 /\ Reads[k].right = last.pre.node.rightBufferPtr

\* C21: whenever currentPlayingNode is present, that session's module handle
\* is non-zero and both its scratch buffers are allocated: a session that
\* ended or whose bytes were rejected is not the controller's active session.
C21_ActiveSessionIsLive ==
  currentPlayingNode # 0 =>
    /\ nodes[currentPlayingNode].modulePtr # 0
    /\ nodes[currentPlayingNode].leftBufferPtr # 0
    /\ nodes[currentPlayingNode].rightBufferPtr # 0

\* the natural end alone: a callback of a live session read zero frames and
\* left no exception, and the session is no longer the active one
C21_EndedSessionIsDropped ==
  ActiveRender /\ ZeroReads # {} /\ ~last.obs.threw
    /\ last.pre.cur = last.node /\ Registered("onEnded") = {}
    => currentPlayingNode # last.node

\* the onEnded / onError dispatches of the callback that ran last
TerminalDispatches ==
  Dispatched(last.node, "onEnded") \cup Dispatched(last.node, "onError")

\* the last handler an onEnded dispatch of the callback invoked called
\* play(), and no exception left the callback
EndedHandlerPlayed ==
  /\ IsRender /\ ~last.obs.threw
  /\ \E e \in Dispatched(last.node, "onEnded") :
       LET invoked == last.obs.events[e].invoked
       IN  /\ invoked # <<>>
           /\ handlers[invoked[Len(invoked)]].handler = "play"

\* C22: when a render callback detects the end of the stream, the handlers of
\* onEnded / onError find the session disconnected, its handle 0 and its
\* buffers freed; if an onEnded handler calls play() with bytes the engine
\* accepts, then after the callback the new session is currentPlayingNode, is
\* the only connected session and has a live handle and buffers, and the old
\* session's handle was destroyed once and each of its buffers freed once.
C22_TeardownBeforeTerminalEvent ==
  /\ IsRender =>
       \A e \in TerminalDispatches :
         /\ ~last.obs.events[e].seen.connected
         /\ Released(last.obs.events[e].seen)
  /\ EndedHandlerPlayed =>
       /\ currentPlayingNode = Len(nodes)
       /\ currentPlayingNode # last.node
       /\ Connected = {currentPlayingNode}
       /\ nodes[currentPlayingNode].modulePtr # 0
       /\ nodes[currentPlayingNode].leftBufferPtr # 0
       /\ nodes[currentPlayingNode].rightBufferPtr # 0
       /\ calls[currentPlayingNode].destroy = 0
       /\ calls[currentPlayingNode].freeL = 0
       /\ calls[currentPlayingNode].freeR = 0
       /\ Released(nodes[last.node])
       /\ calls[last.node].destroy = 1
       /\ calls[last.node].freeL = 1
       /\ calls[last.node].freeR = 1

\* the callback of the active session read zero frames, and the onEnded
\* handler started a new session
C22_Witness ==
  /\ EndedHandlerPlayed
  /\ last.pre.cur = last.node
  /\ last.pre.node.connected /\ last.pre.node.modulePtr # 0
  /\ last.frames = MaxFrames
  /\ currentPlayingNode = last.node + 1

=============================================================================
